---- MODULE Spec2Model ----
(***************************************************************************)
(* Port registry (src/smart_port_registry.py) and plugin health checker    *)
(* (src/AI-SFX-Bolt/plugin_health_check.py).                               *)
(*                                                                         *)
(* Spec      one SmartPortRegistry instance, whole handlers as actions,    *)
(*           two owners, the clock standing still                          *)
(* SpecStale the same instance with the clock running, one owner           *)
(* SpecConc  two SmartPortRegistry instances sharing the registry file,    *)
(*           each call split at its file accesses                          *)
(* SpecHealth  PluginHealthChecker.ensure_healthy, one step per check or   *)
(*           recovery action                                               *)
(* SpecRestart  PluginRestarter.restart_plugin and --soft-only             *)
(*           (src/AI-SFX-Bolt/pure_python_plugin_restart.py)               *)
(* SpecValidate  EfficientLocalhostValidator.validate_port, whole calls,   *)
(*           the clock running                                             *)
(* SpecProbe  validate_port under every answer of the port, clock still    *)
(* SpecCache  two validator processes sharing the cache file               *)
(* SpecBatch  LocalhostOrchestrator._concurrent_validation                 *)
(* SpecMonitor, FairSpecMonitor                                            *)
(*           LocalhostOrchestrator._start_health_monitoring                *)
(* SpecWatch, FairSpecWatch                                                *)
(*           the same coroutine followed without an end                    *)
(* SpecAlloc  one SmartPortRegistry instance with its calls and queries    *)
(*           traced, lsof answering the same to every probe of a call      *)
(* SpecExhaust  SmartPortRegistry.allocate_port and                        *)
(*           SmartPortManager.find_available_port                          *)
(*           (src/AI-SFX-Bolt/autonomous_dev_starter.py) with the debug    *)
(*           range filling up                                              *)
(***************************************************************************)
EXTENDS Integers, Sequences, FiniteSets, TLC

VARIABLES
    registry,   \* SmartPortRegistry.registry: port -> PortAllocation (in memory)
    file,       \* contents of ~/.smart_port_registry.json
    bound,      \* ports some live process is bound to (what lsof would list)
    now,        \* wall clock, in hours
    last,       \* the last registry call: its arguments, result and what it purged
    inst,       \* SpecConc: per instance, the position and locals of its call
    file0,      \* SpecConc: the file as it was before the two invocations started
    hc,         \* SpecHealth: position and locals of ensure_healthy
    rs,         \* SpecRestart: position and locals of PluginRestarter.restart_plugin
    vcache,     \* per validator instance, EfficientLocalhostValidator._cache
    vfile,      \* contents of ~/.adobe_localhost_cache.json
    vnow,       \* wall clock of the validator, in seconds
    vlast,      \* the last validate_port call: arguments, probes made, outcome
    vinst,      \* SpecCache: per validator instance, the position of its call
    orch,       \* SpecBatch: LocalhostOrchestrator._concurrent_validation
    mon,        \* SpecMonitor: LocalhostOrchestrator._start_health_monitoring
    pmfile      \* contents of ~/.adobe_port_registry.json (SmartPortManager)

registryVars == <<registry, file, bound, now, last, inst, file0>>
validatorVars == <<vcache, vfile, vnow, vlast, vinst>>
\* what the registry and the health checker never touch
otherVars == <<rs, validatorVars, orch, mon, pmfile>>

vars == <<registry, file, bound, now, last, inst, file0, hc, rs, vcache, vfile, vnow,
          vlast, vinst, orch, mon, pmfile>>

\* Python's None: as a port (0 is as falsy as None in "if preferred_port and ..."),
\* and as a project name
NoPort == 0
NoProject == "<None>"

(***************************************************************************)
(* Constants of the program and bounds of the model.                       *)
(***************************************************************************)
DebugStart == 9230          \* port_ranges['debug'][0]
StaleHours == 24            \* timedelta(hours=24)
ScanSpan == 2               \* the debug range is cut to DebugStart..DebugStart+ScanSpan
TickHours == 25             \* hours that pass in one advance of the clock
MaxTicks == 1               \* the clock stops after MaxTicks advances

DebugEnd == DebugStart + ScanSpan
DebugRange == DebugStart..DebugEnd
reserved_ports == {9230, 9231, 7002}
Ports == DebugRange

Projects == {"proj1", "proj2"}
Plugins == {"panelA", "panelB"}
Owners == {<<"proj1", "panelA">>, <<"proj2", "panelB">>}

\* PortAllocation(port, project_name, plugin_name, status, allocated_at, last_seen)
PortAllocation(project, plugin, status, at, seen) ==
    [project_name |-> project, plugin_name |-> plugin, status |-> status,
     allocated_at |-> at, last_seen |-> seen]

EmptyRegistry == [p \in {} |-> NoPort]

\* dict with one key removed / one key set
Del(reg, port) == [p \in (DOMAIN reg) \ {port} |-> reg[p]]
Put(reg, port, alloc) == [p \in (DOMAIN reg) \cup {port} |-> IF p = port THEN alloc ELSE reg[p]]

(***************************************************************************)
(* _is_port_actually_in_use: lsof's return code, and False when lsof       *)
(* raises or times out.  answers is the set of ports lsof reports in use   *)
(* during one call; a port missing from it is either unbound or one for    *)
(* which lsof failed.                                                      *)
(***************************************************************************)
ProbeAnswers == SUBSET bound
IsPortActuallyInUse(port, answers) == port \in answers

(***************************************************************************)
(* _cleanup_stale_allocations                                              *)
(***************************************************************************)
IsOld(alloc, t) == t - alloc.allocated_at > StaleHours

StalePorts(reg, t, answers) ==
    {p \in DOMAIN reg : IsOld(reg[p], t) /\ ~IsPortActuallyInUse(p, answers)}

CleanupStaleAllocations(reg, t, answers) ==
    [p \in (DOMAIN reg) \ StalePorts(reg, t, answers) |-> reg[p]]

(***************************************************************************)
(* _can_allocate_port: the answer and the registry it leaves in memory.    *)
(* first and final are lsof's answers to the first and to the final probe. *)
(***************************************************************************)
MarkAvailable(reg, port) == [reg EXCEPT ![port].status = "available"]

\* _can_allocate_port without its test of reserved_ports
CanAllocatePort_NoReservedTest(reg, port, first, final) ==
    IF port \in DOMAIN reg /\ reg[port].status \in {"active", "reserved"}
    THEN IF IsPortActuallyInUse(port, first)
         THEN [ok |-> FALSE, reg |-> reg]
         ELSE [ok |-> ~IsPortActuallyInUse(port, final),
               reg |-> MarkAvailable(reg, port)]
    ELSE [ok |-> ~IsPortActuallyInUse(port, final), reg |-> reg]

CanAllocatePort(reg, port, first, final) ==
    IF port \in reserved_ports
    THEN [ok |-> FALSE, reg |-> reg]
    ELSE IF port \in DOMAIN reg /\ reg[port].status \in {"active", "reserved"}
         THEN IF IsPortActuallyInUse(port, first)
              THEN [ok |-> FALSE, reg |-> reg]
              ELSE [ok |-> ~IsPortActuallyInUse(port, final),
                    reg |-> MarkAvailable(reg, port)]
         ELSE [ok |-> ~IsPortActuallyInUse(port, final), reg |-> reg]

(***************************************************************************)
(* _register_allocation (the save that ends it is the caller's file')      *)
(***************************************************************************)
RegisterAllocation(reg, port, project, plugin, t) ==
    Put(reg, port, PortAllocation(project, plugin, "reserved", t, t))

(***************************************************************************)
(* allocate_port, lines 113-121: the ascending scan of the range.  The     *)
(* result is the first port that can be allocated (NoPort when there is    *)
(* none) and the registry after the _can_allocate_port calls made.         *)
(***************************************************************************)
RECURSIVE ScanRange(_, _, _, _, _)
ScanRange(reg, port, end_port, first, final) ==
    IF port > end_port
    THEN [port |-> NoPort, reg |-> reg]
    ELSE LET c == CanAllocatePort(reg, port, first, final)
         IN  IF c.ok
             THEN [port |-> port, reg |-> c.reg]
             ELSE ScanRange(c.reg, port + 1, end_port, first, final)

\* allocate_port, lines 108-121, after the cleanup: preferred port, then the scan
FindPort(reg, preferred_port, first, final) ==
    LET pref == IF preferred_port # NoPort
                THEN CanAllocatePort(reg, preferred_port, first, final)
                ELSE [ok |-> FALSE, reg |-> reg]
    IN  IF pref.ok
        THEN [port |-> preferred_port, reg |-> pref.reg]
        ELSE ScanRange(pref.reg, DebugStart, DebugEnd, first, final)

(***************************************************************************)
(* allocate_port as a whole: cleanup (saved when it purged something),     *)
(* the choice of the port, the registration and its save.                  *)
(***************************************************************************)
AllocatePortResult(reg, f, project, plugin, preferred_port, t, sweep, first, final) ==
    LET cleaned == CleanupStaleAllocations(reg, t, sweep)
        purged  == StalePorts(reg, t, sweep)
        f1      == IF purged # {} THEN cleaned ELSE f
        found   == FindPort(cleaned, preferred_port, first, final)
    IN  IF found.port = NoPort
        THEN [ret |-> NoPort, registry |-> found.reg, file |-> f1, purged |-> purged,
              cleaned |-> cleaned]
        ELSE LET r == RegisterAllocation(found.reg, found.port, project, plugin, t)
             IN  [ret |-> found.port, registry |-> r, file |-> r, purged |-> purged,
                  cleaned |-> cleaned]

(***************************************************************************)
(* release_port: a project_name that is None or empty is falsy in Python   *)
(* and skips the ownership test.                                           *)
(***************************************************************************)
Truthy(project_name) == project_name # NoProject /\ project_name # ""

\* release_port without its del
ReleasePortResult_KeepsEntry(reg, f, port, project_name) ==
    IF port \in DOMAIN reg
    THEN IF Truthy(project_name) /\ reg[port].project_name # project_name
         THEN [ret |-> FALSE, registry |-> reg, file |-> f]
         ELSE [ret |-> TRUE, registry |-> reg, file |-> reg]
    ELSE [ret |-> FALSE, registry |-> reg, file |-> f]

\* release_port without its ownership test
ReleasePortResult_NoOwnerTest(reg, f, port, project_name) ==
    IF port \in DOMAIN reg
    THEN [ret |-> TRUE, registry |-> Del(reg, port), file |-> Del(reg, port)]
    ELSE [ret |-> FALSE, registry |-> reg, file |-> f]

ReleasePortResult(reg, f, port, project_name) ==
    IF port \in DOMAIN reg
    THEN IF Truthy(project_name) /\ reg[port].project_name # project_name
         THEN [ret |-> FALSE, registry |-> reg, file |-> f]
         ELSE [ret |-> TRUE, registry |-> Del(reg, port), file |-> Del(reg, port)]
    ELSE [ret |-> FALSE, registry |-> reg, file |-> f]

(***************************************************************************)
(* mark_port_active: status and last_seen are written before the           *)
(* validation; the registry is saved only when the validator answers       *)
(* is_plugin.                                                              *)
(***************************************************************************)
MarkPortActiveResult(reg, f, port, t, is_plugin) ==
    IF port \in DOMAIN reg
    THEN LET r == [reg EXCEPT ![port].status = "active", ![port].last_seen = t]
         IN  IF is_plugin
             THEN [ret |-> TRUE, registry |-> r, file |-> r]
             ELSE [ret |-> FALSE, registry |-> r, file |-> f]
    ELSE [ret |-> FALSE, registry |-> reg, file |-> f]

(***************************************************************************)
(* Spec: one registry instance.                                            *)
(***************************************************************************)
Bindable == Ports \ reserved_ports
\* port arguments of the calls: every allocatable port and one reserved port
PortArgs == Bindable \cup {DebugStart}
PreferredPorts == PortArgs \cup {NoPort}
ProjectArgs == Projects \cup {NoProject, ""}

NoEntry == [project_name |-> "", plugin_name |-> "", status |-> "none"]
Entry(reg, port) ==
    IF port \in DOMAIN reg
    THEN [project_name |-> reg[port].project_name, plugin_name |-> reg[port].plugin_name,
          status |-> reg[port].status]
    ELSE NoEntry

\* what the model remembers of the last call
\* (for allocate: port is the port returned, preferred the one asked for, prev the
\* entry of the returned port after the sweep, purged what the sweep removed)
Call(op, port, preferred, project, plugin, ok, prev, purged) ==
    [op |-> op, port |-> port, preferred |-> preferred, project |-> project,
     plugin |-> plugin, ok |-> ok, prev |-> prev, purged |-> purged]
NoCall == Call("none", NoPort, NoPort, "", "", FALSE, NoEntry, {})

Instances == {"a", "b"}
IdleInst ==
    [pc |-> "idle", op |-> "none", project |-> "", plugin |-> "", arg |-> NoPort,
     reg |-> EmptyRegistry, found |-> NoPort, ret |-> NoPort, ok |-> FALSE,
     overlapped |-> FALSE]
\* ensure_healthy before it is called: position, loop variable, the health
\* auto_recover read, the result, and a record of what the call has done
IdleHealth ==
    [pc |-> "idle", attempt |-> 0, dev_ok |-> FALSE, plugin |-> "not_found",
     ret |-> FALSE,
     checks |-> 0, failures |-> 0, recoveries |-> 0, waits |-> 0,
     rungs |-> <<>>, everHealthy |-> FALSE, everRecovered |-> FALSE,
     validated |-> FALSE]

(***************************************************************************)
(* The other components before anything is called:                         *)
(* PluginRestarter, EfficientLocalhostValidator, LocalhostOrchestrator.    *)
(***************************************************************************)
\* restart_plugin before it is called: position, arguments, the project file
\* found, the seconds wait_for_plugin has waited, the restarts invoked, result
IdleRestart ==
    [pc |-> "idle", force_hard |-> FALSE, soft_only |-> FALSE,
     open_recent_project |-> TRUE, project_file |-> FALSE, waited |-> 0,
     rungs |-> <<>>, ret |-> FALSE]

\* Python's None as a plugin name, as an error and as a title
NoName == "<None>"
NoError == "<None>"
NoTitle == "<None>"
\* a timestamp datetime.fromisoformat cannot parse
BadStamp == -1

\* the dict validate_port builds (lines 110-119), plugin_title set with is_plugin
Result(port, plugin_name, available, reachable, is_plugin, error, timestamp, from_cache, plugin_title) ==
    [port |-> port, plugin_name |-> plugin_name, available |-> available,
     reachable |-> reachable, is_plugin |-> is_plugin, error |-> error,
     timestamp |-> timestamp, from_cache |-> from_cache, plugin_title |-> plugin_title]
NoResult == Result(NoPort, NoName, FALSE, FALSE, FALSE, NoError, BadStamp, FALSE, NoTitle)

EmptyCache == [p \in {} |-> NoResult]
VInstances == {"a", "b"}

\* what the model remembers of the last validate_port call: who called with
\* what, whether _cache held an entry for the port and with which timestamp,
\* whether the call answered from the cache, which probes it made and what
\* they met, how it ended and with which result; first is the result object of
\* the call before, as handed out then and as it reads now
ValidateCall(i, port, plugin_name, force, had_entry, stamp, hit, transport_probed, identity_probed, transport, identity, outcome, result, first_then, first_now) ==
    [op |-> "validate", inst |-> i, port |-> port, plugin_name |-> plugin_name,
     force |-> force, had_entry |-> had_entry, stamp |-> stamp, hit |-> hit,
     transport_probed |-> transport_probed, identity_probed |-> identity_probed,
     transport |-> transport, identity |-> identity, outcome |-> outcome,
     result |-> result, first_then |-> first_then, first_now |-> first_now]
NoValidate ==
    [ValidateCall("a", NoPort, NoName, FALSE, FALSE, BadStamp, FALSE, FALSE, FALSE,
                  "none", "none", "none", NoResult, NoResult, NoResult)
        EXCEPT !.op = "none"]

\* a validator process before it is constructed: position, the port and the
\* result of the probe it is in, and the newest timestamp it has stored so
\* far for each port (BadStamp: none); calls counts its validate_port calls
IdleVInst ==
    [pc |-> "idle", port |-> NoPort, result |-> NoResult, calls |-> 0,
     stored |-> [p \in {9230, 9231} |-> BadStamp]]

\* _concurrent_validation before it is called: position, the future of each
\* port, the ports as_completed has yielded, results, whether the 10 s of
\* as_completed are over
NoFutures == [p \in {} |-> [state |-> "running", value |-> NoResult]]
IdleBatch ==
    [pc |-> "idle", futures |-> NoFutures, yielded |-> {}, results |-> EmptyCache,
     expired |-> FALSE]
\* _start_health_monitoring before the task is created: position, the
\* connections in the order of the dictionary, the ports left in the current
\* pass with the one being checked at their head, and the ports whose check
\* never returns
NoConnections == [p \in {} |-> [status |-> "connected", last_ping |-> 0, error_count |-> 0]]
IdleMonitor ==
    [pc |-> "idle", connections |-> NoConnections, order |-> <<>>, pending |-> <<>>,
     stuck |-> {}]

InitRestart == rs = IdleRestart
InitOrch == orch = IdleBatch
InitMon == mon = IdleMonitor
\* SmartPortManager's registry file, port -> {'project', 'status', 'last_seen'},
\* as the sequence of its entries in the order of the dictionary; absent at first
EmptyManagerRegistry == <<>>
InitManager == pmfile = EmptyManagerRegistry
InitValidator ==
    /\ vcache = [i \in VInstances |-> EmptyCache]
    /\ vfile = EmptyCache
    /\ vnow = 0
    /\ vlast = NoValidate
    /\ vinst = [i \in VInstances |-> IdleVInst]

Init ==
    /\ registry = EmptyRegistry
    /\ file = EmptyRegistry
    /\ bound = {}
    /\ now = 0
    /\ last = NoCall
    /\ inst = [i \in Instances |-> IdleInst]
    /\ file0 = EmptyRegistry
    /\ hc = IdleHealth
    /\ InitRestart
    /\ InitValidator
    /\ InitOrch
    /\ InitMon
    /\ InitManager

\* SmartPortRegistry.__init__ of a new invocation: self.registry = self._load_registry()
LoadRegistry(f) == f

NewInvocation ==
    /\ registry' = LoadRegistry(file)
    /\ last' = NoCall
    /\ UNCHANGED <<file, bound, now, inst, file0, hc, otherVars>>

AllocatePortBy(owners) ==
    \E owner \in owners, preferred_port \in PreferredPorts :
    \E sweep \in ProbeAnswers, final \in ProbeAnswers :
        LET r == AllocatePortResult(registry, file, owner[1], owner[2],
                                    preferred_port, now, sweep, sweep, final)
        IN  /\ registry' = r.registry
            /\ file' = r.file
            /\ last' = Call("allocate", r.ret, preferred_port, owner[1], owner[2], r.ret # NoPort,
                            Entry(r.cleaned, r.ret),
                            {[port |-> p, last_seen |-> registry[p].last_seen] : p \in r.purged})
            /\ UNCHANGED <<bound, now, inst, file0, hc, otherVars>>

AllocatePort == AllocatePortBy(Owners)

ReleasePort ==
    \E port \in PortArgs, project_name \in ProjectArgs :
        LET r == ReleasePortResult(registry, file, port, project_name)
        IN  /\ registry' = r.registry
            /\ file' = r.file
            /\ last' = Call("release", port, NoPort, project_name, "", r.ret,
                            Entry(registry, port), {})
            /\ UNCHANGED <<bound, now, inst, file0, hc, otherVars>>

MarkPortActive ==
    \E port \in PortArgs, is_plugin \in BOOLEAN :
        LET r == MarkPortActiveResult(registry, file, port, now, is_plugin)
        IN  /\ registry' = r.registry
            /\ file' = r.file
            /\ last' = Call("mark_active", port, NoPort, "", "", r.ret, Entry(registry, port), {})
            /\ UNCHANGED <<bound, now, inst, file0, hc, otherVars>>

\* a process binds or leaves a port
BindPort ==
    \E port \in Bindable \ bound :
        /\ bound' = bound \cup {port}
        /\ last' = NoCall
        /\ UNCHANGED <<registry, file, now, inst, file0, hc, otherVars>>

UnbindPort ==
    \E port \in bound :
        /\ bound' = bound \ {port}
        /\ last' = NoCall
        /\ UNCHANGED <<registry, file, now, inst, file0, hc, otherVars>>

\* time passes
Tick ==
    /\ now < MaxTicks * TickHours
    /\ now' = now + TickHours
    /\ last' = NoCall
    /\ UNCHANGED <<registry, file, bound, inst, file0, hc, otherVars>>

Next ==
    \/ NewInvocation
    \/ AllocatePort
    \/ ReleasePort
    \/ MarkPortActive
    \/ BindPort
    \/ UnbindPort

Spec == Init /\ [][Next]_vars

(***************************************************************************)
(* SpecStale: the same instance with the clock running, one owner.         *)
(***************************************************************************)
StaleOwners == {<<"proj1", "panelA">>}

AllocatePortStale == AllocatePortBy(StaleOwners)

NextStale ==
    \/ NewInvocation
    \/ AllocatePortStale
    \/ MarkPortActive
    \/ BindPort
    \/ UnbindPort
    \/ Tick

SpecStale == Init /\ [][NextStale]_vars

(***************************************************************************)
(* SpecConc: two invocations, each constructing its own SmartPortRegistry  *)
(* over the same file and making one call.  A call is split where it       *)
(* reads or writes the file; nothing locks the file.  lsof answers         *)
(* truthfully here and the bound ports do not change.                      *)
(***************************************************************************)
MainPreferred == 9240       \* main(): {'name': 'Ai Podcast Main', 'preferred_port': 9240}

ConcPreferred == {NoPort, MainPreferred}
ConcReleasePorts == Bindable \cup {MainPreferred}
InitFiles ==
    {EmptyRegistry} \cup
    {Put(EmptyRegistry, p, PortAllocation("proj1", "panelA", "reserved", 0, 0)) : p \in Bindable}

InitConc ==
    /\ registry = EmptyRegistry
    /\ file \in InitFiles
    /\ file0 = file
    /\ bound \in SUBSET Bindable
    /\ now \in {0, TickHours}
    /\ last = NoCall
    /\ inst = [i \in Instances |-> IdleInst]
    /\ hc = IdleHealth
    /\ InitRestart
    /\ InitValidator
    /\ InitOrch
    /\ InitMon
    /\ InitManager

\* some other invocation has loaded the file and not yet finished its call
OtherInCall(i) == \E j \in Instances \ {i} : inst[j].pc \notin {"idle", "done"}

\* the invocation starts: __init__ loads the file; the call and its arguments are chosen
ConstructAllocate(i) ==
    /\ inst[i].pc = "idle"
    /\ \E owner \in Owners, preferred_port \in ConcPreferred :
        inst' = [inst EXCEPT ![i] = [IdleInst EXCEPT !.pc = "loaded", !.op = "allocate",
                                        !.project = owner[1], !.plugin = owner[2],
                                        !.arg = preferred_port,
                                        !.reg = LoadRegistry(file),
                                        !.overlapped = OtherInCall(i)]]
    /\ UNCHANGED <<registry, file, bound, now, last, file0, hc, otherVars>>

ConstructRelease(i) ==
    /\ inst[i].pc = "idle"
    /\ \E port \in ConcReleasePorts, project_name \in Projects \cup {NoProject} :
        inst' = [inst EXCEPT ![i] = [IdleInst EXCEPT !.pc = "loaded", !.op = "release",
                                        !.project = project_name, !.arg = port,
                                        !.reg = LoadRegistry(file),
                                        !.overlapped = OtherInCall(i)]]
    /\ UNCHANGED <<registry, file, bound, now, last, file0, hc, otherVars>>

\* allocate_port line 106: _cleanup_stale_allocations, with its save
Sweep(i) ==
    /\ inst[i].pc = "loaded"
    /\ inst[i].op = "allocate"
    /\ LET cleaned == CleanupStaleAllocations(inst[i].reg, now, bound)
       IN  /\ inst' = [inst EXCEPT ![i].pc = "swept", ![i].reg = cleaned]
           /\ file' = IF StalePorts(inst[i].reg, now, bound) # {} THEN cleaned ELSE file
    /\ UNCHANGED <<registry, bound, now, last, file0, hc, otherVars>>

\* allocate_port lines 108-119: the _can_allocate_port calls up to the first success
FreeCheck(i) ==
    /\ inst[i].pc = "swept"
    /\ LET found == FindPort(inst[i].reg, inst[i].arg, bound, bound)
       IN  inst' = [inst EXCEPT ![i].pc = IF found.port = NoPort THEN "done" ELSE "found",
                                ![i].reg = found.reg,
                                ![i].found = found.port]
    /\ UNCHANGED <<registry, file, bound, now, last, file0, hc, otherVars>>

\* _register_allocation: the entry is written in memory and the registry saved
RegisterAndSave(i) ==
    /\ inst[i].pc = "found"
    /\ LET r == RegisterAllocation(inst[i].reg, inst[i].found, inst[i].project,
                                   inst[i].plugin, now)
       IN  /\ inst' = [inst EXCEPT ![i].pc = "done", ![i].reg = r,
                                   ![i].ret = inst[i].found, ![i].ok = TRUE]
           /\ file' = r
    /\ UNCHANGED <<registry, bound, now, last, file0, hc, otherVars>>

\* release_port on the registry loaded at construction
ReleaseAndSave(i) ==
    /\ inst[i].pc = "loaded"
    /\ inst[i].op = "release"
    /\ LET r == ReleasePortResult(inst[i].reg, file, inst[i].arg, inst[i].project)
       IN  /\ inst' = [inst EXCEPT ![i].pc = "done", ![i].reg = r.registry,
                                   ![i].ret = inst[i].arg, ![i].ok = r.ret]
           /\ file' = r.file
    /\ UNCHANGED <<registry, bound, now, last, file0, hc, otherVars>>

NextConc ==
    \E i \in Instances :
        \/ ConstructAllocate(i)
        \/ ConstructRelease(i)
        \/ Sweep(i)
        \/ FreeCheck(i)
        \/ RegisterAndSave(i)
        \/ ReleaseAndSave(i)

SpecConc == InitConc /\ [][NextConc]_vars

(***************************************************************************)
(* Claims about concurrent invocations.                                    *)
(***************************************************************************)
BothDone == \A i \in Instances : inst[i].pc = "done"
Allocated(i) == inst[i].op = "allocate" /\ inst[i].ok

\* C1: two allocate calls of independent instances whose steps interleave (one
\* loads the file before the other has saved) never both succeed with the same
\* port.
Interleaved == \E i \in Instances : inst[i].overlapped

C1_ConcurrentAllocationsDistinct ==
    (BothDone /\ Interleaved /\ Allocated("a") /\ Allocated("b"))
        => inst["a"].ret # inst["b"].ret

\* the file one invocation leaves when it runs alone on file f
RunAlone(f, call) ==
    IF call.op = "allocate"
    THEN AllocatePortResult(LoadRegistry(f), f, call.project, call.plugin, call.arg,
                            now, bound, bound, bound).file
    ELSE ReleasePortResult(LoadRegistry(f), f, call.arg, call.project).file

SerialOutcomes ==
    {RunAlone(RunAlone(file0, inst["a"]), inst["b"]),
     RunAlone(RunAlone(file0, inst["b"]), inst["a"])}

\* C2: when both invocations have finished, the file is what one of the two
\* serial orders of the calls leaves; in particular both of two allocations of
\* different ports are in it.
C2_FileIsSerialOutcome ==
    BothDone =>
        /\ file \in SerialOutcomes
        /\ (Allocated("a") /\ Allocated("b") /\ inst["a"].ret # inst["b"].ret)
                => {inst["a"].ret, inst["b"].ret} \subseteq DOMAIN file

(***************************************************************************)
(* SpecHealth: PluginHealthChecker.ensure_healthy and auto_recover.  Every *)
(* check and every recovery action is an outside call whose outcome is     *)
(* drawn anew each time.                                                   *)
(***************************************************************************)
max_retries == 3            \* self.max_retries = 3

\* what check_plugin_loaded can find: the panel loaded, the panel showing a
\* failed page (connection refused, or another failure), or no panel
PluginViews == {"loaded", "refused", "page_failed", "not_found"}
PluginOk(view) == view = "loaded"
HasTarget(view) == view # "not_found"
MessageSaysPageFailed(view) == view = "page_failed"

\* perform_health_check: results['healthy'] = dev_ok and plugin_ok
Healthy(dev_ok, view) == dev_ok /\ PluginOk(view)

\* for attempt in range(self.max_retries): this is the last pass of the loop
LastAttempt_OneMore(attempt) == attempt >= max_retries
LastAttempt(attempt) == attempt >= max_retries - 1

Rung(name, ok, post) == [rung |-> name, ok |-> ok, post |-> post]

\* ensure_healthy is called
EnsureHealthy ==
    /\ hc.pc \in {"idle", "done"}
    /\ hc' = [IdleHealth EXCEPT !.pc = "check"]
    /\ UNCHANGED <<registry, file, bound, now, last, inst, file0, otherVars>>

\* the top of the loop without "if health['healthy']: return True"
TopCheck_AlwaysRecovers ==
    /\ hc.pc = "check"
    /\ \E dev_ok \in BOOLEAN, view \in PluginViews :
        hc' = IF Healthy(dev_ok, view)
              THEN [hc EXCEPT !.pc = "recover", !.checks = @ + 1,
                              !.everHealthy = TRUE, !.validated = TRUE]
              ELSE [hc EXCEPT !.pc = "recover", !.checks = @ + 1, !.failures = @ + 1,
                              !.validated = FALSE]
    /\ UNCHANGED <<registry, file, bound, now, last, inst, file0, otherVars>>

\* ensure_healthy lines 268-275: the health check at the top of the loop
TopCheck ==
    /\ hc.pc = "check"
    /\ \E dev_ok \in BOOLEAN, view \in PluginViews :
        hc' = IF Healthy(dev_ok, view)
              THEN [hc EXCEPT !.pc = "done", !.ret = TRUE, !.checks = @ + 1,
                              !.everHealthy = TRUE, !.validated = TRUE]
              ELSE [hc EXCEPT !.pc = "recover", !.checks = @ + 1, !.failures = @ + 1,
                              !.validated = FALSE]
    /\ UNCHANGED <<registry, file, bound, now, last, inst, file0, otherVars>>

\* auto_recover lines 225-229: its own health check
RecoverCheck ==
    /\ hc.pc = "recover"
    /\ \E dev_ok \in BOOLEAN, view \in PluginViews :
        hc' = IF Healthy(dev_ok, view)
              THEN [hc EXCEPT !.pc = "done", !.ret = TRUE, !.recoveries = @ + 1,
                              !.rungs = <<>>, !.everHealthy = TRUE, !.validated = TRUE]
              ELSE [hc EXCEPT !.pc = "step1", !.recoveries = @ + 1, !.rungs = <<>>,
                              !.dev_ok = dev_ok, !.plugin = view, !.validated = FALSE]
    /\ UNCHANGED <<registry, file, bound, now, last, inst, file0, otherVars>>

\* auto_recover lines 232-237, dev server check passed: step 1 is skipped
SkipRestartDevServer ==
    /\ hc.pc = "step1"
    /\ hc.dev_ok
    /\ hc' = [hc EXCEPT !.pc = "step2"]
    /\ UNCHANGED <<registry, file, bound, now, last, inst, file0, otherVars>>

\* auto_recover lines 232-237: restart_dev_server, which returns True only when
\* check_dev_server passed after the restart; a failure ends auto_recover
RestartDevServer ==
    /\ hc.pc = "step1"
    /\ ~hc.dev_ok
    /\ \E ok \in BOOLEAN :
        hc' = [hc EXCEPT !.pc = IF ok THEN "step2" ELSE "failed",
                         !.rungs = Append(@, Rung("restart_dev_server", ok, ok)),
                         !.everRecovered = @ \/ ok,
                         !.validated = FALSE]
    /\ UNCHANGED <<registry, file, bound, now, last, inst, file0, otherVars>>

\* auto_recover line 240 false: the plugin check had passed, nothing is reloaded
SkipReload ==
    /\ hc.pc = "step2"
    /\ PluginOk(hc.plugin) /\ ~MessageSaysPageFailed(hc.plugin)
    /\ hc' = [hc EXCEPT !.pc = "failed"]
    /\ UNCHANGED <<registry, file, bound, now, last, inst, file0, otherVars>>

\* auto_recover lines 244-250: reload_plugin_panel (False without acting when it
\* finds no panel), then check_plugin_loaded alone
ReloadPluginPanel ==
    /\ hc.pc = "step2"
    /\ ~PluginOk(hc.plugin) \/ MessageSaysPageFailed(hc.plugin)
    /\ \E seen \in PluginViews, scripted \in BOOLEAN, after \in PluginViews :
        LET ok   == HasTarget(seen) /\ scripted
            post == ok /\ PluginOk(after)
        IN  hc' = [hc EXCEPT !.pc = IF post THEN "done" ELSE "step3",
                             !.ret = post,
                             !.rungs = Append(@, Rung("reload_plugin_panel", ok, post)),
                             !.everRecovered = @ \/ ok,
                             !.validated = FALSE]
    /\ UNCHANGED <<registry, file, bound, now, last, inst, file0, otherVars>>

\* auto_recover lines 253-260: trigger_premiere_reload, then the final health check
TriggerPremiereReload ==
    /\ hc.pc = "step3"
    /\ \E ok \in BOOLEAN, dev_ok \in BOOLEAN, view \in PluginViews :
        LET post == ok /\ Healthy(dev_ok, view)
        IN  hc' = [hc EXCEPT !.pc = IF post THEN "done" ELSE "failed",
                             !.ret = post,
                             !.rungs = Append(@, Rung("trigger_premiere_reload", ok, post)),
                             !.everRecovered = @ \/ ok,
                             !.everHealthy = @ \/ post,
                             !.validated = post]
    /\ UNCHANGED <<registry, file, bound, now, last, inst, file0, otherVars>>

\* ensure_healthy lines 279-281: auto_recover returned False, wait and go round again
WaitBeforeRetry ==
    /\ hc.pc = "failed"
    /\ ~LastAttempt(hc.attempt)
    /\ hc' = [hc EXCEPT !.pc = "check", !.attempt = @ + 1, !.waits = @ + 1]
    /\ UNCHANGED <<registry, file, bound, now, last, inst, file0, otherVars>>

\* ensure_healthy lines 283-284: the loop is over
GiveUp ==
    /\ hc.pc = "failed"
    /\ LastAttempt(hc.attempt)
    /\ hc' = [hc EXCEPT !.pc = "done", !.ret = FALSE]
    /\ UNCHANGED <<registry, file, bound, now, last, inst, file0, otherVars>>

NextHealth ==
    \/ EnsureHealthy
    \/ TopCheck
    \/ RecoverCheck
    \/ SkipRestartDevServer
    \/ RestartDevServer
    \/ SkipReload
    \/ ReloadPluginPanel
    \/ TriggerPremiereReload
    \/ WaitBeforeRetry
    \/ GiveUp

SpecHealth == Init /\ [][NextHealth]_vars

\* the health record of the design, read off the call
HealthState ==
    IF hc.pc = "idle" THEN "Unknown"
    ELSE IF hc.pc = "check" THEN "Checking"
    ELSE IF hc.pc = "done" THEN (IF hc.ret THEN "Healthy" ELSE "Failed")
    ELSE "Unhealthy"
ConsecutiveFailures == hc.failures
\* what ensure_healthy hands to its caller: "-> bool", return True / return False
EnsureHealthyReturns == [ret |-> hc.ret]

(***************************************************************************)
(* SpecRestart: PluginRestarter.restart_plugin and the command line's      *)
(* --soft-only.  Every outside call (the debug endpoint, the process       *)
(* table, the launcher) answers anew each time.                            *)
(***************************************************************************)
max_wait == 30              \* wait_for_plugin(self, max_wait: int = 30)

\* restart_plugin(force_hard, open_recent_project) is called (main, line 363)
RestartPlugin ==
    /\ rs.pc \in {"idle", "done"}
    /\ \E force_hard \in BOOLEAN, open_recent_project \in BOOLEAN :
        rs' = [IdleRestart EXCEPT !.pc = IF force_hard THEN "hard" ELSE "soft",
                                  !.force_hard = force_hard,
                                  !.open_recent_project = open_recent_project]
    /\ UNCHANGED <<registryVars, hc, pmfile, validatorVars, orch, mon>>

\* main, lines 345-346: --soft-only calls soft_restart alone
SoftOnly ==
    /\ rs.pc \in {"idle", "done"}
    /\ rs' = [IdleRestart EXCEPT !.pc = "soft", !.soft_only = TRUE]
    /\ UNCHANGED <<registryVars, hc, pmfile, validatorVars, orch, mon>>

\* what follows a soft restart that failed: restart_plugin lines 323-328 fall
\* through to hard_restart; --soft-only ends
AfterFailedSoft(soft_only) == IF soft_only THEN "done" ELSE "hard"

\* soft_restart: reload_plugin_via_debug answers True or False
SoftRestart ==
    /\ rs.pc = "soft"
    /\ \E ok \in BOOLEAN :
        rs' = [rs EXCEPT !.pc = IF ok THEN "done" ELSE AfterFailedSoft(rs.soft_only),
                         !.rungs = Append(@, Rung("soft_restart", ok, ok)),
                         !.ret = ok]
    /\ UNCHANGED <<registryVars, hc, pmfile, validatorVars, orch, mon>>

\* hard_restart lines 292-297: it is entered, and looks for the recent project
\* when asked to
HardRestart ==
    /\ rs.pc = "hard"
    /\ \E found \in BOOLEAN :
        rs' = [rs EXCEPT !.pc = "kill",
                         !.project_file = rs.open_recent_project /\ found,
                         !.rungs = Append(@, Rung("hard_restart", FALSE, FALSE))]
    /\ UNCHANGED <<registryVars, hc, pmfile, validatorVars, orch, mon>>

\* hard_restart lines 300-302: force_kill_premiere, False when no process was
\* found or none could be killed
ForceKillPremiere ==
    /\ rs.pc = "kill"
    /\ \E killed \in BOOLEAN :
        rs' = [rs EXCEPT !.pc = IF killed THEN "start" ELSE "done", !.ret = FALSE]
    /\ UNCHANGED <<registryVars, hc, pmfile, validatorVars, orch, mon>>

\* hard_restart lines 308-310: start_premiere
StartPremiere ==
    /\ rs.pc = "start"
    /\ \E started \in BOOLEAN :
        rs' = [rs EXCEPT !.pc = IF started THEN "wait" ELSE "done", !.ret = FALSE]
    /\ UNCHANGED <<registryVars, hc, pmfile, validatorVars, orch, mon>>

\* wait_for_plugin: one pass of its loop, check_plugin_status answers
WaitForPlugin ==
    /\ rs.pc = "wait"
    /\ \E responding \in BOOLEAN :
        rs' = IF responding
              THEN [rs EXCEPT !.pc = "done", !.ret = TRUE,
                              !.rungs[Len(rs.rungs)] = Rung("hard_restart", TRUE, TRUE)]
              ELSE IF rs.waited + 1 >= max_wait
                   THEN [rs EXCEPT !.pc = "done", !.ret = FALSE, !.waited = @ + 1]
                   ELSE [rs EXCEPT !.waited = @ + 1]
    /\ UNCHANGED <<registryVars, hc, pmfile, validatorVars, orch, mon>>

NextRestart ==
    \/ RestartPlugin
    \/ SoftOnly
    \/ SoftRestart
    \/ HardRestart
    \/ ForceKillPremiere
    \/ StartPremiere
    \/ WaitForPlugin

SpecRestart == Init /\ [][NextRestart]_vars

(***************************************************************************)
(* EfficientLocalhostValidator.validate_port.  The socket check, the       *)
(* request to the debug endpoint and every write of the cache file are     *)
(* outside calls; their answers are arguments.                             *)
(***************************************************************************)
cache_duration == 300       \* self.cache_duration = 300
TickSeconds == 150          \* seconds that pass in one advance of the validator's clock
MaxVTicks == 2              \* the validator's clock stops after MaxVTicks advances

\* _load_cache: the file's mapping (an unreadable file reads as the empty one)
LoadCache(f) == f

\* _is_cache_valid: "true", "false", or "raises" when the entry's timestamp
\* does not parse
IsCacheValid_Inclusive(cache, port, t) ==
    IF port \notin DOMAIN cache THEN "false"
    ELSE IF cache[port].timestamp = BadStamp THEN "raises"
    ELSE IF t - cache[port].timestamp <= cache_duration THEN "true" ELSE "false"

IsCacheValid(cache, port, t) ==
    IF port \notin DOMAIN cache THEN "false"
    ELSE IF cache[port].timestamp = BadStamp THEN "raises"
    ELSE IF t - cache[port].timestamp < cache_duration THEN "true" ELSE "false"

\* the socket check: connect_ex returns 0, returns an error code, or raises
Transports == {"open", "refused", "raised"}

\* titles of the targets the debug endpoint lists
PanelTitle == "AI SFX Generator"
Titles == {PanelTitle, "CEP Extension", "Some page"}
\* plugin_name and plugin_name in title
NameInTitle(plugin_name, title) == plugin_name # NoName /\ plugin_name = title
\* 'CEP' in title or 'Extension' in title
GenericTitle(title) == title = "CEP Extension"

\* lines 149-158: the title of the first target that matches, NoTitle if none
RECURSIVE FirstMatch(_, _)
FirstMatch(targets, plugin_name) ==
    IF targets = <<>> THEN NoTitle
    ELSE IF NameInTitle(plugin_name, Head(targets)) \/ GenericTitle(Head(targets))
         THEN Head(targets)
         ELSE FirstMatch(Tail(targets), plugin_name)

\* the answer to GET /json: a list of targets, an HTTP error status, no answer
\* (URLError), a body that is not JSON, or JSON that is not a list of objects
IdentityFailures == {"http_error", "url_error", "bad_json", "bad_shape"}
TargetLists == {<<"Some page", PanelTitle>>, <<"CEP Extension">>, <<"Some page">>}
IdentityAnswers ==
    {[kind |-> "targets", targets |-> l] : l \in TargetLists} \cup
    {[kind |-> k, targets |-> <<>>] : k \in IdentityFailures}

\* lines 140-165: what the request to the debug endpoint makes of the result
IdentityProbe(result, plugin_name, identity) ==
    IF identity.kind = "targets"
    THEN LET title == FirstMatch(identity.targets, plugin_name)
         IN  [result EXCEPT !.reachable = TRUE, !.available = TRUE,
                            !.is_plugin = title # NoTitle, !.plugin_title = title]
    ELSE IF identity.kind = "http_error" THEN [result EXCEPT !.error = "HTTP error"]
    ELSE IF identity.kind = "url_error" THEN [result EXCEPT !.error = "URL error"]
    ELSE IF identity.kind = "bad_json" THEN [result EXCEPT !.error = "Unexpected error"]
    ELSE [result EXCEPT !.reachable = TRUE, !.available = TRUE,
                        !.error = "Unexpected error"]

\* how a validate_port call ends
Ended(outcome, result, cache, f, hit, transport_probed, identity_probed) ==
    [outcome |-> outcome, result |-> result, cache |-> cache, file |-> f, hit |-> hit,
     transport_probed |-> transport_probed, identity_probed |-> identity_probed]

\* lines 130-131, 136-137, 168-169: the result goes into _cache and the whole
\* _cache is written to the file; a write that fails raises and leaves the file
StoreAndSave(cache, f, port, result, save_ok, identity_probed) ==
    LET c == Put(cache, port, result)
    IN  IF save_ok
        THEN Ended("returned", result, c, c, FALSE, TRUE, identity_probed)
        ELSE Ended("raised", result, c, f, FALSE, TRUE, identity_probed)

\* validate_port.  saves[1] and saves[2] say whether the first and the second
\* write of the cache file succeed: the write at line 131 is inside the try
\* of the socket check, so that its failure is handled at lines 134-138.
ValidatePortResult(cache, f, port, plugin_name, force, t, transport, identity, saves) ==
    LET valid == IF force THEN "false" ELSE IsCacheValid(cache, port, t)
        fresh == Result(port, plugin_name, FALSE, FALSE, FALSE, NoError, t, FALSE, NoTitle)
        closed == [fresh EXCEPT !.error = "Port not open"]
        failed == [fresh EXCEPT !.error = "Socket error"]
    IN  IF valid = "raises"
        THEN Ended("raised", NoResult, cache, f, FALSE, FALSE, FALSE)
        ELSE IF valid = "true"
        THEN LET cached == [cache[port] EXCEPT !.from_cache = TRUE]
             IN  Ended("returned", cached, Put(cache, port, cached), f, TRUE, FALSE, FALSE)
        ELSE IF transport = "refused"
        THEN IF saves[1]
             THEN StoreAndSave(cache, f, port, closed, TRUE, FALSE)
             ELSE StoreAndSave(Put(cache, port, closed), f, port, failed, saves[2], FALSE)
        ELSE IF transport = "raised"
        THEN StoreAndSave(cache, f, port, failed, saves[1], FALSE)
        ELSE StoreAndSave(cache, f, port, IdentityProbe(fresh, plugin_name, identity),
                          saves[1], TRUE)

(***************************************************************************)
(* SpecValidate: one validator, called again and again on one port while   *)
(* time passes; a new process constructs it anew from the file.  The port  *)
(* is closed or lists the panel.                                           *)
(* SpecProbe: the same at one moment, with every answer of the outside.    *)
(***************************************************************************)
ValidatedPort == 9230       \* test_port = 9230, the default debug port
PluginNames == {NoName, PanelTitle}
\* what the outside answers during one call: the socket check, the debug
\* endpoint when it is asked, the writes of the cache file
Answers(transport, identity, saves) ==
    [transport |-> transport, identity |-> identity, saves |-> saves]
NoIdentity == [kind |-> "none", targets |-> <<>>]
Environments ==
    {Answers("refused", NoIdentity, sv) : sv \in {<<TRUE, TRUE>>, <<FALSE, TRUE>>, <<FALSE, FALSE>>}}
    \cup {Answers("raised", NoIdentity, <<ok, ok>>) : ok \in BOOLEAN}
    \cup {Answers("open", identity, <<ok, ok>>) : identity \in IdentityAnswers, ok \in BOOLEAN}

\* a cache file with an entry whose timestamp does not parse
MalformedFile ==
    Put(EmptyCache, ValidatedPort,
        Result(ValidatedPort, NoName, FALSE, FALSE, FALSE, "Port not open", BadStamp,
               FALSE, NoTitle))

InitValidate ==
    /\ registry = EmptyRegistry
    /\ file = EmptyRegistry
    /\ bound = {}
    /\ now = 0
    /\ last = NoCall
    /\ inst = [i \in Instances |-> IdleInst]
    /\ file0 = EmptyRegistry
    /\ hc = IdleHealth
    /\ InitRestart
    /\ vfile \in {EmptyCache, MalformedFile}
    /\ vcache = [i \in VInstances |-> LoadCache(vfile)]
    /\ vnow = 0
    /\ vlast = NoValidate
    /\ vinst = [i \in VInstances |-> IdleVInst]
    /\ InitOrch
    /\ InitMon
    /\ InitManager

CacheEntry(cache, port) == IF port \in DOMAIN cache THEN cache[port] ELSE NoResult

\* the call before returned, to the same validator, the result of a probe of
\* this port: that result is the dict _cache holds for the port
HeldFromProbe(i, port) ==
    /\ vlast.op = "validate"
    /\ vlast.inst = i
    /\ vlast.port = port
    /\ vlast.outcome = "returned"
    /\ ~vlast.hit

\* the answers of a port that refuses the connection or lists the panel
CacheEnvironments ==
    {env \in Environments :
        \/ env.transport = "refused"
        \/ env.identity = [kind |-> "targets", targets |-> <<"Some page", PanelTitle>>]}

ValidatePortWith(environments) ==
    \E port \in {ValidatedPort}, plugin_name \in PluginNames, force \in BOOLEAN :
    \E env \in environments :
        LET r == ValidatePortResult(vcache["a"], vfile, port, plugin_name, force, vnow,
                                    env.transport, env.identity, env.saves)
            held == HeldFromProbe("a", port) /\ r.hit
        IN  /\ vcache' = [vcache EXCEPT !["a"] = r.cache]
            /\ vfile' = r.file
            /\ vlast' = ValidateCall("a", port, plugin_name, force,
                                     port \in DOMAIN vcache["a"],
                                     CacheEntry(vcache["a"], port).timestamp, r.hit,
                                     r.transport_probed, r.identity_probed,
                                     IF r.transport_probed THEN env.transport ELSE "none",
                                     IF r.identity_probed THEN env.identity.kind ELSE "none",
                                     r.outcome, r.result,
                                     IF held THEN vlast.result ELSE NoResult,
                                     IF held THEN r.cache[port] ELSE NoResult)
            /\ UNCHANGED <<registryVars, hc, pmfile, rs, vnow, vinst, orch, mon>>

\* a new process: EfficientLocalhostValidator() loads the file
NewValidator ==
    /\ vcache' = [vcache EXCEPT !["a"] = LoadCache(vfile)]
    /\ vlast' = NoValidate
    /\ UNCHANGED <<registryVars, hc, pmfile, rs, vfile, vnow, vinst, orch, mon>>

\* time passes
Advance ==
    /\ vnow < MaxVTicks * TickSeconds
    /\ vnow' = vnow + TickSeconds
    /\ vlast' = NoValidate
    /\ UNCHANGED <<registryVars, hc, pmfile, rs, vcache, vfile, vinst, orch, mon>>

ValidatePortCached == ValidatePortWith(CacheEnvironments)
ValidatePort == ValidatePortWith(Environments)

NextValidate ==
    \/ ValidatePortCached
    \/ NewValidator
    \/ Advance

SpecValidate == InitValidate /\ [][NextValidate]_vars

NextProbe ==
    \/ ValidatePort
    \/ NewValidator

SpecProbe == InitValidate /\ [][NextProbe]_vars

(***************************************************************************)
(* SpecCache: two validator processes over the same cache file.  Each      *)
(* loads the file when it is constructed; a call that probes builds its    *)
(* result (with the timestamp) first and writes its whole _cache to the    *)
(* file afterwards; nothing locks the file.  The cache file can be written *)
(* here.                                                                   *)
(***************************************************************************)
CachePorts == {9230, 9231}  \* ports_to_check: the default debug ports
MaxCalls == 2               \* calls of validate_port one process makes
SavesWork == <<TRUE, TRUE>>
\* the ports refuse the connection
ProbeEnvironments == {Answers("refused", NoIdentity, SavesWork)}

\* EfficientLocalhostValidator() in a new process
Construct(i) ==
    /\ vinst[i].pc = "idle"
    /\ vinst' = [vinst EXCEPT ![i].pc = "ready"]
    /\ vcache' = [vcache EXCEPT ![i] = LoadCache(vfile)]
    /\ vlast' = NoValidate
    /\ UNCHANGED <<registryVars, hc, pmfile, rs, vfile, vnow, orch, mon>>

\* validate_port lines 104-107: answered from _cache
CacheRead(i) ==
    /\ vinst[i].pc = "ready"
    /\ vinst[i].calls < MaxCalls
    /\ vinst' = [vinst EXCEPT ![i].calls = @ + 1]
    /\ \E port \in CachePorts :
        LET r == ValidatePortResult(vcache[i], vfile, port, NoName, FALSE, vnow,
                                    "refused", NoIdentity, SavesWork)
        IN  /\ r.hit
            /\ vcache' = [vcache EXCEPT ![i] = r.cache]
            /\ vlast' = ValidateCall(i, port, NoName, FALSE, TRUE,
                                     vcache[i][port].timestamp, TRUE, FALSE, FALSE,
                                     "none", "none", r.outcome, r.result, NoResult,
                                     NoResult)
    /\ UNCHANGED <<registryVars, hc, pmfile, rs, vfile, vnow, orch, mon>>

\* validate_port lines 110-165: the result is built, with the time of the
\* call, and the probes are made
BeginProbe(i) ==
    /\ vinst[i].pc = "ready"
    /\ vinst[i].calls < MaxCalls
    /\ \E port \in CachePorts, force \in BOOLEAN, env \in ProbeEnvironments :
        LET r == ValidatePortResult(vcache[i], vfile, port, NoName, force, vnow,
                                    env.transport, env.identity, env.saves)
        IN  /\ ~r.hit
            /\ vinst' = [vinst EXCEPT ![i].pc = "probed", ![i].port = port,
                                      ![i].result = r.result, ![i].calls = @ + 1]
    /\ vlast' = NoValidate
    /\ UNCHANGED <<registryVars, hc, pmfile, rs, vcache, vfile, vnow, orch, mon>>

Max(x, y) == IF x >= y THEN x ELSE y

\* validate_port lines 168-171: the result goes into _cache, _cache into the file
StoreResult(i) ==
    /\ vinst[i].pc = "probed"
    /\ LET r == StoreAndSave(vcache[i], vfile, vinst[i].port, vinst[i].result, TRUE, TRUE)
       IN  /\ vcache' = [vcache EXCEPT ![i] = r.cache]
           /\ vfile' = r.file
           /\ vinst' = [vinst EXCEPT ![i].pc = "ready", ![i].port = NoPort,
                                     ![i].result = NoResult,
                                     ![i].stored[vinst[i].port] =
                                         Max(@, vinst[i].result.timestamp)]
    /\ vlast' = NoValidate
    /\ UNCHANGED <<registryVars, hc, pmfile, rs, vnow, orch, mon>>

\* time passes
AdvanceCache ==
    /\ vnow < MaxVTicks * TickSeconds
    /\ vnow' = vnow + TickSeconds
    /\ vlast' = NoValidate
    /\ UNCHANGED <<registryVars, hc, pmfile, rs, vcache, vfile, vinst, orch, mon>>

NextCache ==
    \/ \E i \in VInstances :
        \/ Construct(i)
        \/ CacheRead(i)
        \/ BeginProbe(i)
        \/ StoreResult(i)
    \/ AdvanceCache

SpecCache == Init /\ [][NextCache]_vars

(***************************************************************************)
(* SpecBatch: LocalhostOrchestrator._concurrent_validation.  The workers   *)
(* of the pool call validate_port of the orchestrator's validator ("a");   *)
(* the loop over as_completed calls mark_port_active, which asks the       *)
(* registry's own validator ("b").  There are fewer ports than workers     *)
(* (max_workers=5), so every probe is started at once.                     *)
(***************************************************************************)
BatchSize == 2              \* ports allocated to the project
FirstBatchPort == 9232      \* the first port outside reserved_ports
BatchPorts == FirstBatchPort..(FirstBatchPort + BatchSize - 1)
\* allocations: plugin name -> port
NameOf(port) == IF port = FirstBatchPort THEN PanelTitle ELSE "Text-Based Editing"

AllocatedRegistry ==
    [p \in BatchPorts |-> PortAllocation("proj1", NameOf(p), "reserved", 0, 0)]

\* what a probe of the batch meets: a closed port, the panel, a generic
\* extension page, or a cache file that cannot be written
BatchEnvironments ==
    {Answers("refused", NoIdentity, SavesWork),
     Answers("open", [kind |-> "targets", targets |-> <<"Some page", PanelTitle>>], SavesWork),
     Answers("open", [kind |-> "targets", targets |-> <<"CEP Extension">>], SavesWork),
     Answers("refused", NoIdentity, <<FALSE, FALSE>>)}

InitBatch ==
    /\ registry = AllocatedRegistry
    /\ file = AllocatedRegistry
    /\ bound = {}
    /\ now = 0
    /\ last = NoCall
    /\ inst = [i \in Instances |-> IdleInst]
    /\ file0 = EmptyRegistry
    /\ hc = IdleHealth
    /\ InitRestart
    /\ InitValidator
    /\ InitOrch
    /\ InitMon
    /\ InitManager

\* results[port] = {'error': str(e), 'available': False}
ErrorEntry == [error |-> "Validation failed", available |-> FALSE]

\* lines 107-114: one future per allocation is submitted to the pool
SubmitBatch ==
    /\ orch.pc = "idle"
    /\ orch' = [IdleBatch EXCEPT !.pc = "collecting",
                                 !.futures = [p \in BatchPorts |->
                                                [state |-> "running", value |-> NoResult]]]
    /\ UNCHANGED <<registryVars, hc, pmfile, rs, validatorVars, mon>>

\* a worker's validate_port(port, plugin_name) ends: the future holds its
\* result or its exception
WorkerFinishes ==
    /\ orch.pc # "idle"
    /\ \E port \in DOMAIN orch.futures, env \in BatchEnvironments :
        LET r == ValidatePortResult(vcache["a"], vfile, port, NameOf(port), FALSE, vnow,
                                    env.transport, env.identity, env.saves)
        IN  /\ orch.futures[port].state = "running"
            /\ orch' = [orch EXCEPT !.futures[port] =
                            IF r.outcome = "returned"
                            THEN [state |-> "result", value |-> r.result]
                            ELSE [state |-> "exception", value |-> NoResult]]
            /\ vcache' = [vcache EXCEPT !["a"] = r.cache]
            /\ vfile' = r.file
    /\ UNCHANGED <<registryVars, hc, pmfile, rs, vnow, vlast, vinst, mon>>

\* SmartPortRegistry.mark_port_active with its validate_port call: raised says
\* whether it raises (the validator's call does, or _save_registry does)
MarkPortActiveCall(reg, f, cache, vf, port, t, vt, env, registry_saved) ==
    IF port \notin DOMAIN reg
    THEN [raised |-> FALSE, registry |-> reg, file |-> f, cache |-> cache, vfile |-> vf]
    ELSE LET v == ValidatePortResult(cache, vf, port, NoName, FALSE, vt,
                                     env.transport, env.identity, env.saves)
             is_plugin == v.outcome = "returned" /\ v.result.is_plugin
             m == MarkPortActiveResult(reg, f, port, t, is_plugin)
         IN  IF v.outcome = "raised" \/ (is_plugin /\ ~registry_saved)
             THEN [raised |-> TRUE, registry |-> m.registry, file |-> f,
                   cache |-> v.cache, vfile |-> v.file]
             ELSE [raised |-> FALSE, registry |-> m.registry, file |-> m.file,
                   cache |-> v.cache, vfile |-> v.file]

\* lines 116-130, a future that holds an exception: future.result() raises it
CollectException ==
    /\ orch.pc = "collecting"
    /\ \E port \in DOMAIN orch.futures \ orch.yielded :
        /\ orch.futures[port].state = "exception"
        /\ orch' = [orch EXCEPT !.yielded = @ \cup {port},
                                !.results = Put(@, port, ErrorEntry)]
    /\ UNCHANGED <<registryVars, hc, pmfile, rs, validatorVars, mon>>

\* lines 116-130, a future that holds a result: it is entered in results, and
\* mark_port_active is called when it says is_plugin
CollectResult ==
    /\ orch.pc = "collecting"
    /\ \E port \in DOMAIN orch.futures \ orch.yielded :
       \E env \in BatchEnvironments, registry_saved \in BOOLEAN :
        LET result == orch.futures[port].value
            m == MarkPortActiveCall(registry, file, vcache["b"], vfile, port, now, vnow,
                                    env, registry_saved)
        IN  /\ orch.futures[port].state = "result"
            /\ IF result.is_plugin
               THEN /\ registry' = m.registry
                    /\ file' = m.file
                    /\ vcache' = [vcache EXCEPT !["b"] = m.cache]
                    /\ vfile' = m.vfile
                    /\ orch' = [orch EXCEPT !.yielded = @ \cup {port},
                                            !.results = Put(@, port, IF m.raised THEN ErrorEntry
                                                                     ELSE result)]
               ELSE /\ orch' = [orch EXCEPT !.yielded = @ \cup {port},
                                            !.results = Put(@, port, result)]
                    /\ UNCHANGED <<registry, file, vcache, vfile>>
    /\ last' = NoCall
    /\ UNCHANGED <<bound, now, inst, file0, hc, pmfile, rs, vnow, vlast, vinst, mon>>

\* the 10 seconds of as_completed(validation_futures, timeout=10) are over
DeadlineExpires ==
    /\ orch.pc = "collecting"
    /\ ~orch.expired
    /\ orch' = [orch EXCEPT !.expired = TRUE]
    /\ UNCHANGED <<registryVars, hc, pmfile, rs, validatorVars, mon>>

\* as_completed finds the time over with futures it has not yielded: it raises
\* TimeoutError, which nothing in _concurrent_validation handles
TimeOut ==
    /\ orch.pc = "collecting"
    /\ orch.expired
    /\ DOMAIN orch.futures \ orch.yielded # {}
    /\ orch' = [orch EXCEPT !.pc = "raised"]
    /\ UNCHANGED <<registryVars, hc, pmfile, rs, validatorVars, mon>>

\* line 132: every future was yielded
ReturnResults ==
    /\ orch.pc = "collecting"
    /\ DOMAIN orch.futures = orch.yielded
    /\ orch' = [orch EXCEPT !.pc = "returned"]
    /\ UNCHANGED <<registryVars, hc, pmfile, rs, validatorVars, mon>>

NextBatch ==
    \/ SubmitBatch
    \/ WorkerFinishes
    \/ CollectException
    \/ CollectResult
    \/ DeadlineExpires
    \/ TimeOut
    \/ ReturnResults

SpecBatch == InitBatch /\ [][NextBatch]_vars

(***************************************************************************)
(* SpecMonitor: LocalhostOrchestrator._start_health_monitoring, one        *)
(* coroutine that sleeps 30 s and then checks the connections one after    *)
(* the other with a synchronous validate_port(port, force=True).  A check  *)
(* either returns or never does (the connect and each read have their own  *)
(* timeout, the call as a whole has none).  The event loop runs the        *)
(* coroutine whenever it can continue, which is the fairness of            *)
(* FairSpecMonitor.                                                        *)
(***************************************************************************)
health_check_interval == 30
MaxPasses == 5              \* passes of the while loop

\* PluginConnection(port, plugin_name, status='connected', last_ping=time.time())
PluginConnection(status, last_ping, error_count) ==
    [status |-> status, last_ping |-> last_ping, error_count |-> error_count]

\* the orders in which the dictionary can hold the connections
Orders ==
    {o \in [1..Cardinality(BatchPorts) -> BatchPorts] :
        \A i, j \in 1..Cardinality(BatchPorts) : o[i] = o[j] => i = j}

\* list(self.connections.items())
Items(order, connections) == SelectSeq(order, LAMBDA p : p \in DOMAIN connections)

\* lines 177-193: what one check does to the connections, given how
\* validate_port ended
Checked(connections, port, outcome, result, t) ==
    LET connection == connections[port]
        more == connection.error_count + 1
    IN  IF outcome = "raised"
        THEN [connections EXCEPT ![port].error_count = more]
        ELSE IF result.available
        THEN [connections EXCEPT ![port] = PluginConnection("connected", t, 0)]
        ELSE IF more > 3 THEN Del(connections, port)
        ELSE [connections EXCEPT ![port].error_count = more]

\* initialize_project, lines 69-73: the validated plugins are connected and the
\* task is created
StartHealthMonitoring ==
    /\ mon.pc = "idle"
    /\ \E order \in Orders :
        mon' = [IdleMonitor EXCEPT
                  !.pc = "sleeping",
                  !.order = order,
                  !.connections = [p \in BatchPorts |-> PluginConnection("connected", vnow, 0)]]
    /\ UNCHANGED <<registryVars, hc, pmfile, rs, validatorVars, orch>>

\* lines 170-176: the sleep is over, the pass over a copy of the connections
\* begins
WakeUp ==
    /\ mon.pc = "sleeping"
    /\ vnow < MaxPasses * health_check_interval
    /\ vnow' = vnow + health_check_interval
    /\ mon' = [mon EXCEPT !.pc = "checking",
                          !.pending = Items(mon.order, mon.connections)]
    /\ vlast' = NoValidate
    /\ UNCHANGED <<registryVars, hc, pmfile, rs, vcache, vfile, vinst, orch>>

\* the validate_port call of the port at the head of the pass turns out to be
\* one that never returns
CheckNeverReturns ==
    /\ mon.pc = "checking"
    /\ Head(mon.pending) \notin mon.stuck
    /\ mon' = [mon EXCEPT !.stuck = @ \cup {Head(mon.pending)}]
    /\ UNCHANGED <<registryVars, hc, pmfile, rs, validatorVars, orch>>

\* lines 177-193: validate_port(port, force=True) returns or raises, the
\* connection is updated, and the loop goes on to the next connection or to
\* the while condition
CheckReturns ==
    /\ mon.pc = "checking"
    /\ Head(mon.pending) \notin mon.stuck
    /\ \E env \in BatchEnvironments :
        LET port == Head(mon.pending)
            r == ValidatePortResult(vcache["a"], vfile, port, NoName, TRUE, vnow,
                                    env.transport, env.identity, env.saves)
            connections == Checked(mon.connections, port, r.outcome, r.result, vnow)
            left == Tail(mon.pending)
        IN  /\ mon' = [mon EXCEPT
                         !.connections = connections,
                         !.pending = left,
                         !.pc = IF left # <<>> THEN "checking"
                                ELSE IF DOMAIN connections = {} THEN "stopped"
                                ELSE "sleeping"]
            /\ vcache' = [vcache EXCEPT !["a"] = r.cache]
            /\ vfile' = r.file
    /\ UNCHANGED <<registryVars, hc, pmfile, rs, vnow, vlast, vinst, orch>>

NextMonitor ==
    \/ StartHealthMonitoring
    \/ WakeUp
    \/ CheckNeverReturns
    \/ CheckReturns

SpecMonitor == InitBatch /\ [][NextMonitor]_vars

\* the event loop resumes the coroutine when its sleep is over, and a call
\* that returns does return
FairSpecMonitor ==
    /\ SpecMonitor
    /\ WF_vars(StartHealthMonitoring)
    /\ WF_vars(WakeUp)
    /\ WF_vars(CheckReturns)

(***************************************************************************)
(* SpecWatch: the same coroutine followed without an end.  Every           *)
(* validate_port call returns or raises; the clock of the model stops at   *)
(* the horizon and the failure counter at MaxErrors, neither of which the  *)
(* loop can tell (it compares error_count with 3 only, and a forced        *)
(* validation reads no timestamp).                                         *)
(***************************************************************************)
MaxErrors == 5              \* the failure counter of the model stops here

Horizon == MaxPasses * health_check_interval

\* the connections with the model's cap on error_count
Capped(connections) ==
    [p \in DOMAIN connections |->
        [connections[p] EXCEPT !.error_count = IF @ > MaxErrors THEN MaxErrors ELSE @]]

\* lines 170-176: the sleep is over, the pass over a copy of the connections
\* begins
WatchWakeUp ==
    /\ mon.pc = "sleeping"
    /\ vnow' = IF vnow < Horizon THEN vnow + health_check_interval ELSE vnow
    /\ mon' = [mon EXCEPT !.pc = "checking",
                          !.pending = Items(mon.order, mon.connections)]
    /\ vlast' = NoValidate
    /\ UNCHANGED <<registryVars, hc, pmfile, rs, vcache, vfile, vinst, orch>>

\* lines 177-193: validate_port(port, force=True) returns or raises, the
\* connection is updated, and the loop goes on to the next connection or to
\* the while condition
WatchCheck ==
    /\ mon.pc = "checking"
    /\ \E env \in BatchEnvironments :
        LET port == Head(mon.pending)
            r == ValidatePortResult(vcache["a"], vfile, port, NoName, TRUE, vnow,
                                    env.transport, env.identity, env.saves)
            connections == Capped(Checked(mon.connections, port, r.outcome, r.result, vnow))
            left == Tail(mon.pending)
        IN  /\ mon' = [mon EXCEPT
                         !.connections = connections,
                         !.pending = left,
                         !.pc = IF left # <<>> THEN "checking"
                                ELSE IF DOMAIN connections = {} THEN "stopped"
                                ELSE "sleeping"]
            /\ vcache' = [vcache EXCEPT !["a"] = r.cache]
            /\ vfile' = r.file
    /\ UNCHANGED <<registryVars, hc, pmfile, rs, vnow, vlast, vinst, orch>>

NextWatch ==
    \/ StartHealthMonitoring
    \/ WatchWakeUp
    \/ WatchCheck

SpecWatch == InitBatch /\ [][NextWatch]_vars

\* the event loop resumes the coroutine when its sleep is over, and a call
\* that returns or raises gives the control back
FairSpecWatch ==
    /\ SpecWatch
    /\ WF_vars(StartHealthMonitoring)
    /\ WF_vars(WatchWakeUp)
    /\ WF_vars(WatchCheck)

(***************************************************************************)
(* SpecAlloc: one SmartPortRegistry instance and one SmartPortManager,     *)
(* the clock standing still.  lsof gives the same answers to every probe   *)
(* of one call, and the record of a call keeps those answers.              *)
(***************************************************************************)
AllocOwners == {<<"proj1", "panelA">>, <<"proj1", "panelB">>}
AllocPreferred == {NoPort, DebugStart, MainPreferred}
\* the ports that can be allocated: those of the range and the preferred port of
\* main(), which no process is seen to bind
AllocPorts == Bindable \cup {MainPreferred}

\* what the model remembers of the last call: fresh says the registry had no
\* allocation when the call began, turn changes with every call, again says
\* the call is a release of a port whose release succeeded, with nothing but
\* releases of that port since
Traced(op, port, preferred, project, plugin, ok, fresh, answers, turn, again) ==
    [op |-> op, port |-> port, preferred |-> preferred, project |-> project,
     plugin |-> plugin, ok |-> ok, fresh |-> fresh, answers |-> answers, turn |-> turn,
     again |-> again]
NoTraced == Traced("none", NoPort, NoPort, "", "", FALSE, FALSE, {}, 0, FALSE)
NextTurn == 1 - last.turn
ReleasedBefore(port) == last.op = "release" /\ last.port = port /\ (last.ok \/ last.again)

InitAlloc ==
    /\ registry = EmptyRegistry
    /\ file = EmptyRegistry
    /\ bound = {}
    /\ now = 0
    /\ last = NoTraced
    /\ inst = [i \in Instances |-> IdleInst]
    /\ file0 = EmptyRegistry
    /\ hc = IdleHealth
    /\ InitRestart
    /\ InitValidator
    /\ InitOrch
    /\ InitMon
    /\ InitManager

\* get_available_ports, lines 208-213: _can_allocate_port on every port of the
\* range in ascending order, each call working on the registry the one before
\* left
RECURSIVE AvailableScan(_, _, _, _, _)
AvailableScan(reg, port, end_port, answers, available) ==
    IF port > end_port
    THEN [available |-> available, reg |-> reg]
    ELSE LET c == CanAllocatePort(reg, port, answers, answers)
         IN  AvailableScan(c.reg, port + 1, end_port, answers,
                           IF c.ok THEN Append(available, port) ELSE available)

GetAvailablePortsResult(reg, answers) ==
    AvailableScan(reg, DebugStart, DebugEnd, answers, <<>>)

\* get_project_ports: the allocations of one project
GetProjectPortsResult(reg, project_name) ==
    {p \in DOMAIN reg : reg[p].project_name = project_name}

\* status_report: returns early on an empty registry, otherwise ends with
\* get_available_ports()[:5]
StatusReportResult(reg, answers) ==
    IF DOMAIN reg = {} THEN reg ELSE GetAvailablePortsResult(reg, answers).reg

AllocatePortTraced ==
    \E owner \in AllocOwners, preferred_port \in AllocPreferred, answers \in ProbeAnswers :
        LET r == AllocatePortResult(registry, file, owner[1], owner[2],
                                    preferred_port, now, answers, answers, answers)
        IN  /\ registry' = r.registry
            /\ file' = r.file
            /\ last' = Traced("allocate", r.ret, preferred_port, owner[1], owner[2],
                              r.ret # NoPort, DOMAIN registry = {}, answers, NextTurn, FALSE)
            /\ UNCHANGED <<bound, now, inst, file0, hc, otherVars>>

ReleasePortTraced ==
    \E port \in AllocPorts, project_name \in Projects \cup {NoProject} :
        LET r == ReleasePortResult(registry, file, port, project_name)
        IN  /\ registry' = r.registry
            /\ file' = r.file
            /\ last' = Traced("release", port, NoPort, project_name, "", r.ret,
                              DOMAIN registry = {}, {}, NextTurn, ReleasedBefore(port))
            /\ UNCHANGED <<bound, now, inst, file0, hc, otherVars>>

GetAvailablePorts ==
    \E answers \in ProbeAnswers :
        /\ registry' = GetAvailablePortsResult(registry, answers).reg
        /\ last' = Traced("get_available_ports", NoPort, NoPort, "", "", TRUE,
                          DOMAIN registry = {}, answers, NextTurn, FALSE)
        /\ UNCHANGED <<file, bound, now, inst, file0, hc, otherVars>>

GetProjectPorts ==
    \E project_name \in Projects :
        /\ last' = Traced("get_project_ports", NoPort, NoPort, project_name, "",
                          GetProjectPortsResult(registry, project_name) # {},
                          DOMAIN registry = {}, {}, NextTurn, FALSE)
        /\ UNCHANGED <<registry, file, bound, now, inst, file0, hc, otherVars>>

StatusReport ==
    \E answers \in ProbeAnswers :
        /\ registry' = StatusReportResult(registry, answers)
        /\ last' = Traced("status_report", NoPort, NoPort, "", "", TRUE,
                          DOMAIN registry = {}, answers, NextTurn, FALSE)
        /\ UNCHANGED <<file, bound, now, inst, file0, hc, otherVars>>

\* a process binds or leaves a port
BindAllocPort ==
    \E port \in Bindable \ bound :
        /\ bound' = bound \cup {port}
        /\ UNCHANGED <<registry, file, now, last, inst, file0, hc, otherVars>>

UnbindAllocPort ==
    \E port \in bound :
        /\ bound' = bound \ {port}
        /\ UNCHANGED <<registry, file, now, last, inst, file0, hc, otherVars>>

\* a new invocation loads the registry from the file
ReloadRegistry ==
    /\ registry' = LoadRegistry(file)
    /\ UNCHANGED <<file, bound, now, last, inst, file0, hc, otherVars>>

NextAlloc ==
    \/ AllocatePortTraced
    \/ ReleasePortTraced
    \/ GetAvailablePorts
    \/ GetProjectPorts
    \/ StatusReport
    \/ BindAllocPort
    \/ UnbindAllocPort
    \/ ReloadRegistry

SpecAlloc == InitAlloc /\ [][NextAlloc]_vars

(***************************************************************************)
(* SpecExhaust: the two allocators of the repository when ports run out,   *)
(* SmartPortRegistry.allocate_port and SmartPortManager.find_available_port *)
(* (src/AI-SFX-Bolt/autonomous_dev_starter.py), over a debug range every   *)
(* port of which a process can bind.                                       *)
(***************************************************************************)
\* the first port of an ascending scan that passes, None (or the fall-back) when none does
Lowest(ports) == IF ports = {} THEN NoPort ELSE CHOOSE p \in ports : \A q \in ports : p <= q

manager_project == PanelTitle       \* SmartPortManager(project_name="AI SFX Generator", ...)
manager_preferred == DebugStart     \* ... preferred_port=9230)

ManagerEntry(port, project) == [port |-> port, project |-> project, status |-> "reserved"]
ManagerPorts(f) == {f[i].port : i \in DOMAIN f}

\* registry[str(port)] = {...}: a key the dictionary has keeps its place
ManagerPut(f, port, project) ==
    IF port \in ManagerPorts(f)
    THEN [i \in DOMAIN f |-> IF f[i].port = port THEN ManagerEntry(port, project) ELSE f[i]]
    ELSE Append(f, ManagerEntry(port, project))

\* lines 86-92: the first entry of this project whose port is not in use
RECURSIVE PreviouslyAllocated(_, _)
PreviouslyAllocated(f, answers) ==
    IF f = <<>> THEN NoPort
    ELSE IF Head(f).project = manager_project /\ Head(f).port \notin answers
    THEN Head(f).port
    ELSE PreviouslyAllocated(Tail(f), answers)

\* find_available_port: the port returned and the file it leaves.  The last
\* case is lines 107-109: "If all else fails, force use preferred port"
FindAvailablePortResult(f, answers) ==
    LET previous == PreviouslyAllocated(f, answers)
        found == Lowest(DebugRange \ answers)
    IN  IF manager_preferred \notin answers THEN [ret |-> manager_preferred, file |-> f]
        ELSE IF previous # NoPort THEN [ret |-> previous, file |-> f]
        ELSE IF found # NoPort
        THEN [ret |-> found, file |-> ManagerPut(f, found, manager_project)]
        ELSE [ret |-> manager_preferred, file |-> f]

\* SmartPortManager.release_port
ManagerReleaseResult(f, port) == SelectSeq(f, LAMBDA e : e.port # port)

FindAvailablePort ==
    \E answers \in ProbeAnswers :
        LET r == FindAvailablePortResult(pmfile, answers)
        IN  /\ pmfile' = r.file
            /\ last' = Traced("find_available_port", r.ret, manager_preferred, manager_project,
                              "", TRUE, pmfile = <<>>, answers, NextTurn, FALSE)
            /\ UNCHANGED <<registry, file, bound, now, inst, file0, hc, rs, validatorVars,
                           orch, mon>>

ManagerReleasePort ==
    \E port \in DebugRange :
        /\ pmfile' = ManagerReleaseResult(pmfile, port)
        /\ last' = Traced("manager_release", port, NoPort, manager_project, "",
                          port \in ManagerPorts(pmfile), pmfile = <<>>, {}, NextTurn, FALSE)
        /\ UNCHANGED <<registry, file, bound, now, inst, file0, hc, rs, validatorVars,
                       orch, mon>>

\* allocate_port without a preferred port or with the default debug port
AllocatePortExhaust ==
    \E owner \in AllocOwners, preferred_port \in {NoPort, DebugStart}, answers \in ProbeAnswers :
        LET r == AllocatePortResult(registry, file, owner[1], owner[2],
                                    preferred_port, now, answers, answers, answers)
        IN  /\ registry' = r.registry
            /\ file' = r.file
            /\ last' = Traced("allocate", r.ret, preferred_port, owner[1], owner[2],
                              r.ret # NoPort, DOMAIN registry = {}, answers, NextTurn, FALSE)
            /\ UNCHANGED <<bound, now, inst, file0, hc, otherVars>>

BindDebugPort ==
    \E port \in DebugRange \ bound :
        /\ bound' = bound \cup {port}
        /\ UNCHANGED <<registry, file, now, last, inst, file0, hc, otherVars>>

NextExhaust ==
    \/ AllocatePortExhaust
    \/ FindAvailablePort
    \/ ManagerReleasePort
    \/ BindDebugPort
    \/ UnbindAllocPort

SpecExhaust == InitAlloc /\ [][NextExhaust]_vars

(***************************************************************************)
(* Claims about the restarter.                                             *)
(***************************************************************************)
RestartsInvoked == {rs.rungs[i].rung : i \in DOMAIN rs.rungs}

\* C11: the hard restart of the host application is invoked only when the
\* caller asked for it (force_hard); when a soft restart ran too, the hard
\* restart comes after it; a soft restart that failed does not by itself lead
\* to a hard restart.
C11_HardRestartOnlyOnRequest ==
    "hard_restart" \in RestartsInvoked =>
        /\ rs.force_hard
        /\ rs.rungs[Len(rs.rungs)].rung = "hard_restart"
        /\ ~\E i \in DOMAIN rs.rungs :
                rs.rungs[i].rung = "soft_restart" /\ ~rs.rungs[i].ok

(***************************************************************************)
(* Claims about the registry.                                              *)
(***************************************************************************)
Live(entry) == entry.status \in {"reserved", "active"}
OwnerOf(entry) == <<entry.project_name, entry.plugin_name>>

\* C3: allocate never returns a port whose entry is reserved or active for a
\* different owner, so a live allocation is never replaced by another owner's.
C3_NeverReplacesLiveAllocation ==
    (last.op = "allocate" /\ last.ok)
        => ~(Live(last.prev) /\ OwnerOf(last.prev) # <<last.project, last.plugin>>)

\* C4: the port allocate returns is never on the reserved deny-list, asked for
\* as the preferred port or met by the scan.
C4_ReservedNeverAllocated ==
    (last.op = "allocate" /\ last.ok) => last.port \notin reserved_ports

C4_Witness ==
    /\ last.op = "allocate"
    /\ last.preferred \in reserved_ports
    /\ last.ok
    /\ last.port > DebugStart

\* C5 as stated: a release naming a project other than the owner's returns
\* false and changes nothing in memory or in the file; a release removes the
\* allocation only when the project matches or is omitted.
C5_ReleaseByOtherProjectRefused ==
    [][last'.op = "release" =>
        /\ (/\ last'.project # NoProject
            /\ last'.prev.status # "none"
            /\ last'.prev.project_name # last'.project)
                => (~last'.ok /\ registry' = registry /\ file' = file)
        /\ last'.ok => (last'.project = NoProject
                        \/ last'.prev.project_name = last'.project)]_vars

\* C5 amended: the same for a project name that is not empty; the empty name
\* counts as omitted.
C5_ReleaseByOtherNamedProjectRefused ==
    [][last'.op = "release" =>
        /\ (/\ Truthy(last'.project)
            /\ last'.prev.status # "none"
            /\ last'.prev.project_name # last'.project)
                => (~last'.ok /\ registry' = registry /\ file' = file)
        /\ last'.ok => (~Truthy(last'.project)
                        \/ last'.prev.project_name = last'.project)]_vars

C5_Witness ==
    /\ last.op = "release"
    /\ Truthy(last.project)
    /\ Live(last.prev)
    /\ last.prev.project_name # last.project
    /\ ~last.ok
    /\ last.port \in DOMAIN registry
    /\ last.port \in DOMAIN file

\* C6: the sweep never removes an allocation whose port a live process is bound
\* to, whatever lsof answered (time-out and failure included).
C6_BoundPortNeverPurged ==
    last.op = "allocate" => \A x \in last.purged : x.port \notin bound

\* C7: the sweep removes an allocation only if its last_seen is more than 24
\* hours old; one refreshed within 24 hours (by mark_port_active) stays.
C7_PurgedOnlyIfLastSeenOld ==
    last.op = "allocate" => \A x \in last.purged : now - x.last_seen > StaleHours

(***************************************************************************)
(* Claims about the health checker.                                        *)
(***************************************************************************)
\* C8: with no health check ever healthy and no recovery action ever succeeding,
\* ensure_healthy returns False after exactly max_retries passes of its loop
\* (one health check of its own in each), with as many consecutive failures,
\* in state Failed, and never starts a recovery beyond its budget.
C8_FailsAfterExactlyMaxRetries ==
    (hc.pc = "done" /\ ~hc.everHealthy /\ ~hc.everRecovered) =>
        /\ hc.ret = FALSE
        /\ hc.checks = max_retries
        /\ ConsecutiveFailures = max_retries
        /\ HealthState = "Failed"
        /\ hc.recoveries = max_retries
        /\ hc.waits = max_retries - 1

C8_Witness ==
    /\ hc.pc = "done"
    /\ ~hc.everHealthy
    /\ ~hc.everRecovered
    /\ ~hc.ret
    /\ Len(hc.rungs) > 0

\* C9: ensure_healthy returns True only if a health check made after the last
\* recovery action reported healthy with every check passing.
C9_TrueOnlyAfterFullValidation ==
    (hc.pc = "done" /\ hc.ret) => hc.validated

\* the ladder of the design, by severity: soft reload of the panel, reopening the
\* panel in the host, restarting the dev server
Severity(name) ==
    IF name = "reload_plugin_panel" THEN 1
    ELSE IF name = "trigger_premiere_reload" THEN 2
    ELSE 3
RungNames == {"reload_plugin_panel", "trigger_premiere_reload", "restart_dev_server"}
PreconditionUnmet(name) ==
    IF name = "restart_dev_server" THEN ~hc.dev_ok ELSE ~PluginOk(hc.plugin)
Invoked == {hc.rungs[i].rung : i \in DOMAIN hc.rungs}

\* C10: within one pass of auto_recover the rungs run in increasing severity, a
\* rung whose precondition check passed is skipped, a pass that fails has tried
\* every rung whose precondition was unmet, and no rung runs after a rung whose
\* post-check succeeded.
C10_LadderOrder ==
    hc.pc \in {"step1", "step2", "step3", "failed"} =>
        /\ \A i, j \in DOMAIN hc.rungs :
              i < j => Severity(hc.rungs[i].rung) < Severity(hc.rungs[j].rung)
        /\ hc.dev_ok => "restart_dev_server" \notin Invoked
        /\ hc.pc = "failed" => \A name \in RungNames : PreconditionUnmet(name) => name \in Invoked
        /\ \A i \in DOMAIN hc.rungs : i < Len(hc.rungs) => ~hc.rungs[i].post

(***************************************************************************)
(* Claims about the validator.                                             *)
(***************************************************************************)
\* the cases of a validate_port call: the cache holds an entry for the port
\* younger than the TTL and nothing forces a probe; or the call is forced, or
\* there is no entry, or the entry is as old as the TTL or older
FreshEntry ==
    /\ ~vlast.force
    /\ vlast.had_entry
    /\ vlast.stamp # BadStamp
    /\ vnow - vlast.stamp < cache_duration
ProbeDue ==
    \/ vlast.force
    \/ ~vlast.had_entry
    \/ vlast.stamp # BadStamp /\ vnow - vlast.stamp >= cache_duration

\* C12: validate_port returns the cached result with from_cache = True, making
\* no probe, exactly when it is not forced and the cache holds an entry for
\* the port less than 300 s old; when it is forced, or there is no entry, or
\* the entry is 300 s old or older, it probes the port and the result it
\* builds has from_cache = False.
C12_CachedExactlyWhenFresh ==
    vlast.op = "validate" =>
        /\ FreshEntry => /\ vlast.outcome = "returned"
                         /\ vlast.result.from_cache
                         /\ ~vlast.transport_probed
                         /\ ~vlast.identity_probed
        /\ ProbeDue => /\ vlast.transport_probed
                       /\ vlast.result.port = vlast.port
                       /\ ~vlast.result.from_cache
        /\ (vlast.outcome = "returned" /\ vlast.result.from_cache) => FreshEntry

C12_Witness ==
    /\ vlast.op = "validate"
    /\ FreshEntry
    /\ vnow - vlast.stamp > 0
    /\ vlast.outcome = "returned"
    /\ vlast.result.from_cache

SameButFromCache(r1, r2) == [r1 EXCEPT !.from_cache = FALSE] = [r2 EXCEPT !.from_cache = FALSE]

\* C14: when a call that probed the port is followed, within the TTL, by a call
\* that is not forced, the two results agree in every field but from_cache,
\* which reads False in the first result and True in the second; the second
\* call leaves the other fields of the stored entry as they were.
C14_SecondCallEqualButFlag ==
    (vlast.op = "validate" /\ vlast.hit /\ vlast.first_then # NoResult) =>
        /\ SameButFromCache(vlast.first_now, vlast.result)
        /\ ~vlast.first_now.from_cache
        /\ vlast.result.from_cache
        /\ SameButFromCache(vcache[vlast.inst][vlast.port], vlast.first_then)

\* the newest timestamp any process has stored for the port
HighWater(port) == Max(vinst["a"].stored[port], vinst["b"].stored[port])

ReadNotOlderThanStored ==
    (vlast.op = "validate" /\ vlast.hit) =>
        vlast.result.timestamp >= HighWater(vlast.port)

PersistedNeverOlder ==
    \A port \in DOMAIN vfile :
        /\ port \in DOMAIN vfile'
        /\ vfile'[port].timestamp >= vfile[port].timestamp

\* C13: for every port, once a process has stored a result with timestamp t,
\* no later answer from the cache, in any process, has an earlier timestamp,
\* and the timestamp of the port's entry in the file never decreases.
C13_CacheNeverGoesBack ==
    []ReadNotOlderThanStored /\ [][PersistedNeverOlder]_vars

TransportFailed == vlast.transport \in {"refused", "raised"}
IdentityFailed == vlast.transport = "open" /\ vlast.identity \in IdentityFailures

\* C15: when the connection to the port fails, the result of validate_port
\* has reachable = False, is_plugin = False and the error of a closed port,
\* and the debug endpoint is never asked.
C15_TransportFailureIsPortClosed ==
    (vlast.op = "validate" /\ TransportFailed) =>
        /\ ~vlast.identity_probed
        /\ ~vlast.result.reachable
        /\ ~vlast.result.is_plugin
        /\ vlast.result.error = "Port not open"

\* the errors validate_port reports for the request to the debug endpoint
ProtocolErrors == {"HTTP error", "URL error", "Unexpected error"}

\* C16: when the connection succeeds and the answer of the debug endpoint does
\* not arrive or does not parse, the result of validate_port has a protocol
\* error, reachable = True and is_plugin = False.
C16_IdentityFailureIsProtocolError ==
    (vlast.op = "validate" /\ IdentityFailed) =>
        /\ vlast.result.error \in ProtocolErrors
        /\ vlast.result.reachable
        /\ ~vlast.result.is_plugin

\* C17: whatever the cache holds (nothing, a stale entry, a malformed entry)
\* and whatever the probes and the write of the cache file do, validate_port
\* returns a result, with the failure in its error field, and raises nothing.
C17_NeverRaises ==
    vlast.op = "validate" =>
        /\ vlast.outcome = "returned"
        /\ (TransportFailed \/ IdentityFailed) => vlast.result.error # NoError

(***************************************************************************)
(* Claims about the batch validation.                                      *)
(***************************************************************************)
BatchEnded == orch.pc \in {"returned", "raised"}
InFlight == {p \in DOMAIN orch.futures : orch.futures[p].state = "running"}

\* C18: _concurrent_validation returns a map with an entry for every port
\* asked for; the entry of a port whose worker raised is an error entry, the
\* entry of every other port is the result of its own probe: no failing
\* worker ends the batch.  Stated for the calls whose 10 seconds did not run
\* out, the others being the subject of C19.
C18_EveryPortHasItsEntry ==
    (BatchEnded /\ ~orch.expired) =>
        /\ orch.pc = "returned"
        /\ DOMAIN orch.results = BatchPorts
        /\ \A p \in BatchPorts :
              IF orch.futures[p].state = "exception"
              THEN orch.results[p] = ErrorEntry
              ELSE orch.results[p] = orch.futures[p].value

\* C19: when the time is over while probes are still in flight, the call
\* returns without waiting for them: the ports whose probe completed have
\* their result, the ports whose probe did not are reported as timed out.
C19_DeadlineReturnsPartialResults ==
    (BatchEnded /\ orch.expired /\ InFlight # {}) =>
        /\ orch.pc = "returned"
        /\ DOMAIN orch.results = BatchPorts
        /\ \A p \in BatchPorts :
              IF p \in InFlight
              THEN orch.results[p].error = "Timeout"
              ELSE orch.futures[p].state = "result" => orch.results[p] = orch.futures[p].value

(***************************************************************************)
(* Claims about the health monitoring.                                     *)
(***************************************************************************)
Checking(port) == mon.pc = "checking" /\ Head(mon.pending) = port
Hanging(port) == Checking(port) /\ port \in mon.stuck
PassesLeft == vnow < MaxPasses * health_check_interval

\* C20: when the check of one connection never returns, every other
\* connection is still checked again (while the monitor has passes left).
C20_HangingCheckBlocksNobody ==
    \A p \in BatchPorts : \A q \in BatchPorts \ {p} :
        [](Hanging(p) /\ q \in DOMAIN mon.connections /\ PassesLeft => <>Checking(q))

(***************************************************************************)
(* Claims about allocation, release and the queries (SpecAlloc).           *)
(***************************************************************************)
\* the step is a call of the registry
CallStep == last'.turn # last.turn

Held(reg, port) == port \in DOMAIN reg /\ reg[port].status \in {"reserved", "active"}
HeldByOther(reg, port, owner) ==
    Held(reg, port) /\ <<reg[port].project_name, reg[port].plugin_name>> # owner

\* the reference function of allocate
ReferencePort(reg, preferred, owner, answers) ==
    IF /\ preferred # NoPort
       /\ preferred \notin reserved_ports
       /\ ~Held(reg, preferred)
       /\ preferred \notin answers
    THEN preferred
    ELSE Lowest({p \in DebugRange : /\ p \notin reserved_ports
                                    /\ ~HeldByOther(reg, p, owner)
                                    /\ p \notin answers})

\* C21: allocate returns the preferred port if it is given, not reserved, not
\* held and free, otherwise the lowest port of the range that is not reserved,
\* not held reserved/active by a different owner and free, otherwise no port.
C21_AllocateIsReference ==
    [][(CallStep /\ last'.op = "allocate") =>
          last'.port = ReferencePort(registry, last'.preferred,
                                     <<last'.project, last'.plugin>>, last'.answers)]_vars

\* allocate(project, plugin, preferred=9230), as a call record
IsAllocate(call, project, plugin) ==
    /\ call.op = "allocate"
    /\ call.project = project
    /\ call.plugin = plugin
    /\ call.preferred = DebugStart
NextFreePort(reg, answers) == Lowest({p \in DebugRange : ~Held(reg, p) /\ p \notin answers})

\* C22: on a registry with no allocations and 9230 free,
\* allocate("proj1","panelA", preferred=9230) returns 9230, and a following
\* allocate("proj1","panelB", preferred=9230) returns the next free port of the
\* range.
C22_ScenarioA ==
    [][CallStep =>
        /\ (IsAllocate(last', "proj1", "panelA") /\ last'.fresh /\ DebugStart \notin last'.answers)
                => last'.port = DebugStart
        /\ (/\ IsAllocate(last, "proj1", "panelA") /\ last.fresh
            /\ IsAllocate(last', "proj1", "panelB"))
                => last'.port = NextFreePort(registry, last'.answers)]_vars

\* C23: when every port of the range is reserved, held or not free, and the
\* preferred port cannot be allocated either, the allocator returns no port,
\* adds no allocation and does not fall back to a reserved or occupied port.
\* Stated for both allocators: allocate_port, and find_available_port, which
\* knows neither deny-list nor owners and for which a port is free when it is
\* not in use.
C23_NoPortsAvailable ==
    [][CallStep =>
        /\ (/\ last'.op = "allocate"
            /\ ReferencePort(registry, last'.preferred, <<last'.project, last'.plugin>>,
                             last'.answers) = NoPort)
                => (last'.port = NoPort /\ DOMAIN registry' = DOMAIN registry)
        /\ (last'.op = "find_available_port" /\ DebugRange \subseteq last'.answers)
                => (last'.port = NoPort /\ pmfile' = pmfile)]_vars

\* the other allocations are those the registry held before the call
OthersKept(port) ==
    /\ DOMAIN registry' \subseteq DOMAIN registry
    /\ \A q \in DOMAIN registry \ {port} : q \in DOMAIN registry' /\ registry'[q] = registry[q]
\* and what a save wrote of them is what the registry held
OthersWritten(port) ==
    file' # file => \A q \in DOMAIN registry \ {port} : q \in DOMAIN file' /\ file'[q] = registry[q]

\* C24: after a successful release of a port, every further release of it
\* returns false and changes nothing, and no release, first or repeated,
\* changes the allocation of another port.
C24_ReleaseIdempotent ==
    [][(CallStep /\ last'.op = "release") =>
          /\ last'.again => (~last'.ok /\ registry' = registry /\ file' = file)
          /\ OthersKept(last'.port)
          /\ OthersWritten(last'.port)]_vars

\* a release repeated after a successful one, refused, with another port allocated
C24_Witness ==
    /\ last.op = "release"
    /\ last.again
    /\ ~last.ok
    /\ DOMAIN registry # {}
    /\ last.port \notin DOMAIN registry

Queries == {"get_available_ports", "get_project_ports", "status_report"}

\* C29: get_available_ports, get_project_ports and status_report change no
\* allocation: the registry in memory, which is what the next save writes,
\* and the registry file are after the query what they were before it.
C29_QueriesChangeNothing ==
    [][(CallStep /\ last'.op \in Queries) =>
          (registry' = registry /\ file' = file)]_vars

(***************************************************************************)
(* Claims about mark_port_active (Spec).                                   *)
(***************************************************************************)
\* C25: mark_port_active makes a reserved allocation active only when the
\* validation of the port identified the panel; when it did not, or the port
\* has no allocation, the call returns False and the status in memory (which
\* is what a later save writes) is the one the allocation had.
C25_ActiveOnlyWhenValidated ==
    last.op = "mark_active" =>
        /\ (last.prev.status = "reserved" /\ Entry(registry, last.port).status = "active")
                => last.ok
        /\ ~last.ok => Entry(registry, last.port).status = last.prev.status

(***************************************************************************)
(* Claims about ensure_healthy (SpecHealth).                               *)
(***************************************************************************)
\* C26: when ensure_healthy fails after three attempts on a port that never
\* answered and with no recovery action succeeding, what it reports is false
\* with state Failed, the last error kind (PortClosed) and the number of
\* failures (3).
C26_FailureReportsErrorAndCount ==
    (hc.pc = "done" /\ ~hc.ret /\ hc.plugin = "not_found" /\ ~hc.everRecovered) =>
        /\ HealthState = "Failed"
        /\ ConsecutiveFailures = max_retries
        /\ EnsureHealthyReturns =
              [ret |-> FALSE, state |-> "Failed", error |-> "PortClosed",
               consecutiveFailures |-> max_retries]

\* the first health check of the call was healthy
FirstCheckHealthy == hc.checks >= 1 /\ hc.failures = 0

\* C27: when the first health check of ensure_healthy is healthy, the call
\* returns True at once: no recovery action, no wait, no further health check.
C27_HealthyReturnsAtOnce ==
    FirstCheckHealthy =>
        /\ hc.pc = "done"
        /\ hc.ret
        /\ hc.checks = 1
        /\ hc.recoveries = 0
        /\ hc.rungs = <<>>
        /\ hc.waits = 0
        /\ hc.attempt = 0

C27_Witness ==
    /\ FirstCheckHealthy
    /\ hc.pc = "done"
    /\ hc.ret
    /\ hc.everHealthy

(***************************************************************************)
(* Claims about the health monitoring (FairSpecWatch).                     *)
(***************************************************************************)
Watched(port) == port \in DOMAIN mon.connections
Failures(port) == mon.connections[port].error_count

\* a connection leaves the watch only on its fourth failed check in a row
RemovedOnlyAfterFour ==
    [][\A p \in BatchPorts :
          (Watched(p) /\ p \notin DOMAIN mon.connections') => Failures(p) >= 3]_vars

\* the count of a watched connection goes up by one failure or back to 0
CountsConsecutiveFailures ==
    [][\A p \in BatchPorts :
          (Watched(p) /\ p \in DOMAIN mon.connections') =>
              \/ mon.connections'[p] = mon.connections[p]
              \/ mon.connections'[p].error_count = 0
              \/ mon.connections'[p].error_count = Failures(p) + 1
              \/ Failures(p) = MaxErrors /\ mon.connections'[p].error_count = MaxErrors]_vars

\* a watched connection with failed checks behind it gets a successful check
\* or is removed
FailingIsRemoved ==
    \A p \in BatchPorts :
        (Watched(p) /\ Failures(p) > 0) ~> (~Watched(p) \/ Failures(p) = 0)

\* C28: a watched connection is removed only after more than 3 failed checks
\* in a row, a successful check puts its count back to 0 and keeps it
\* watched, and a connection whose checks keep failing is eventually removed.
C28_FailingConnectionIsRemoved ==
    /\ RemovedOnlyAfterFour
    /\ CountsConsecutiveFailures
    /\ FailingIsRemoved

(***************************************************************************)
(* Claims about the hint of validate_port (SpecValidate).                  *)
(***************************************************************************)
\* the last call was answered from the cache
ServedFromCache == vlast.op = "validate" /\ vlast.outcome = "returned" /\ vlast.hit

\* an is_plugin of True rests on a title that matches under this hint
MatchesUnder(plugin_name, result) ==
    result.is_plugin =>
        (NameInTitle(plugin_name, result.plugin_title) \/ GenericTitle(result.plugin_title))

\* C30: the is_plugin validate_port returns is the one computed against the
\* plugin_name of that call: an answer of True served from the cache rests
\* on a title that matches under the plugin_name of this call, not under the
\* plugin_name the cached result was computed for.
C30_AnswerIsForTheHint ==
    ServedFromCache => MatchesUnder(vlast.plugin_name, vlast.result)

====
